---- MODULE Spec2Model ----
(***************************************************************************)
(* exam-architect: the attempt protocol (start_exam_attempt /              *)
(* submit_exam_attempt), the row-level policies of the database and the    *)
(* TakeExam page with its ExamTimer, as state machines over the tables     *)
(* exams, questions and exam_attempts and the React state of the page;     *)
(* saveExam of the EditExam page beside them, and the usage counter of the *)
(* generate-questions function over user_profiles.                         *)
(*                                                                         *)
(* A nullable SQL value is a set: Null is the empty set and a value v is   *)
(* the singleton {v}.  A jsonb object is a function from keys to strings.  *)
(***************************************************************************)
EXTENDS Integers, Sequences, FiniteSets, TLC

\* ------------------------------------------------------------------ bounds
MaxQuestions == 2     \* size of the largest question bank of the exam taken
MaxAttempts == 1      \* rows exam_attempts may hold
MaxClock == 2         \* last instant of the database clock
MaxScoredQuestions == 8
MaxTimeUps == 2   \* invocations of onTimeUp are counted up to this number
MaxSaves == 1     \* saves of the exam by its author
MaxUsage == 4     \* largest ai_questions_generated a request may write

\* ai_questions_limit of every account (the table's default is 50)
QuotaLimit == 3

\* ------------------------------------------------------------- SQL values
Null == {}
Val(x) == {x}
Unwrap(v) == CHOOSE x \in v : TRUE

\* three-valued logic: a boolean is Val(TRUE), Val(FALSE) or Null (unknown)
SqlEq(a, b) == IF a = Null \/ b = Null THEN Null ELSE Val(a = b)
SqlNe(a, b) == IF a = Null \/ b = Null THEN Null ELSE Val(a # b)
SqlNot(a) == IF a = Null THEN Null ELSE Val(~Unwrap(a))
SqlAnd(a, b) == IF a = Val(FALSE) \/ b = Val(FALSE) THEN Val(FALSE)
                ELSE IF a = Null \/ b = Null THEN Null ELSE Val(TRUE)
SqlOr(a, b) == IF a = Val(TRUE) \/ b = Val(TRUE) THEN Val(TRUE)
               ELSE IF a = Null \/ b = Null THEN Null ELSE Val(FALSE)
\* IF c THEN ..., WHERE c, USING (c): taken only when c is true
IsTrue(a) == a = Val(TRUE)

\* j ->> k : the text of member k of the jsonb object j, NULL when absent
JsonGetText(j, k) == IF j = Null THEN Null
                     ELSE IF k \in DOMAIN Unwrap(j) THEN Val(Unwrap(j)[k]) ELSE Null

\* ------------------------------------------------------------ identities
UserIds == {"u1", "u2"}                 \* u1 authors the exams, u2 is a candidate
AuthUids == {Val(u) : u \in UserIds} \cup {Null}   \* auth.uid(); NULL for anon
ExamIds == {"e1", "e2"}
SessionTokens == {Val("s1"), Val("s2"), Null}   \* p_session_id; TEXT, may be NULL
AttemptIdPool == <<"a1", "a2", "a3", "a4">>
UnknownAttemptId == "a0"
Calls == 1..2                           \* submit_exam_attempt calls, in order of arrival

\* ------------------------------------------------------------------ tables
\* exams(id, created_by, is_published, solo_mode): e1 is published, e2 is the
\* author's unpublished solo-mode exam
ExamRow(e) ==
  [id |-> e, created_by |-> Val("u1"),
   is_published |-> IF e = "e1" THEN Val(TRUE) ELSE Val(FALSE),
   solo_mode |-> Val(e = "e2"),
   time_limit_minutes |-> IF e = "e1" THEN Val(1) ELSE Null]

\* questions: every column of the table
QuestionColumns ==
  {"id", "exam_id", "question_text", "question_type", "options", "correct_answer",
   "image_url", "solution", "order_index", "created_at", "explanation"}

QuestionId(e, i) == "q" \o ToString(i) \o (IF e = "e1" THEN "" ELSE "-" \o e)

\* the answer key of the i-th question of a bank: "A", "B", then unset, then "A"...
CorrectAnswerOf(i) == IF i % 3 = 1 THEN Val("A") ELSE IF i % 3 = 2 THEN Val("B") ELSE Null

QuestionRow(e, i) ==
  [id |-> QuestionId(e, i), exam_id |-> e, question_text |-> "text",
   question_type |-> "multiple_choice", options |-> <<"A", "B", "C">>,
   correct_answer |-> CorrectAnswerOf(i), image_url |-> Null,
   solution |-> Val("because"), order_index |-> i - 1, created_at |-> 0,
   explanation |-> Val("explained")]

QuestionBank(e, n) == {QuestionRow(e, i) : i \in 1..n}

\* exam_attempts: the row start_exam_attempt inserts
AttemptRow(a, e, s, answers, now) ==
  [id |-> a, exam_id |-> e, session_id |-> s, answers |-> answers,
   score |-> Null, started_at |-> now, submitted_at |-> Null]

VARIABLES
  exams,        \* table exams: id -> row
  questions,    \* table questions: set of rows
  attempts,     \* table exam_attempts: id -> row (committed state)
  clock,        \* the database clock
  call,         \* submit_exam_attempt: per call, its position, parameters and locals
  startResult,  \* what the last start_exam_attempt call returned or raised
  payload,      \* the last result set a direct read returned, and to whom
  directResult, \* how the last direct INSERT or UPDATE on exam_attempts ended
  page,         \* the TakeExam page of one browser tab: its React state
  rendered,     \* the state the page was last rendered from
  timer,        \* the ExamTimer of the page
  nowMs,        \* the browser's clock (new Date()), in milliseconds
  event,        \* the handler or callback of the page that ran last, and
                \* whether it invoked onTimeUp
  startCall,    \* the last start_exam_attempt request a caller sent, and its answer
  editor,       \* the EditExam page of the exam's author
  profiles,     \* user_profiles: the AI usage of each account
  gen           \* the generate-questions requests being served

pageVars == <<page, rendered, timer, nowMs, event>>
authorVars == <<editor, profiles, gen>>
vars == <<exams, questions, attempts, clock, call, startResult, payload, directResult,
          pageVars, startCall, authorVars>>
takerVars == <<payload, directResult, pageVars, startCall>>
clientVars == <<takerVars, authorVars>>

\* -------------------------------------------------- submit_exam_attempt
InvalidAttemptError == "Invalid attempt, session mismatch, or already submitted"

\* (variant: the WHERE clause without "AND submitted_at IS NULL")
SelectAttemptExamIgnoringSubmitted(rows, p_attempt_id, p_session_id) ==
  IF /\ p_attempt_id \in DOMAIN rows
     /\ IsTrue(SqlEq(rows[p_attempt_id].session_id, p_session_id))
  THEN Val(rows[p_attempt_id].exam_id)
  ELSE Null

\* SELECT exam_id INTO v_exam_id FROM exam_attempts
\*   WHERE id = p_attempt_id AND session_id = p_session_id AND submitted_at IS NULL
SelectAttemptExam(rows, p_attempt_id, p_session_id) ==
  IF /\ p_attempt_id \in DOMAIN rows
     /\ IsTrue(SqlEq(rows[p_attempt_id].session_id, p_session_id))
     /\ rows[p_attempt_id].submitted_at = Null
  THEN Val(rows[p_attempt_id].exam_id)
  ELSE Null

\* SELECT ... FROM questions q WHERE q.exam_id = v_exam_id
QuestionsOf(qs, v_exam_id) == {q \in qs : IsTrue(SqlEq(Val(q.exam_id), v_exam_id))}

\* (variant: the comparison made on lower(...) of both sides)
Lower(text) ==
  CASE text = "A" -> "a" [] text = "B" -> "b" [] text = "C" -> "c" [] OTHER -> text
AnswerMatchesIgnoringCase(p_answers, question_record) ==
  LET given == JsonGetText(p_answers, question_record.id)
  IN /\ given # Null /\ question_record.correct_answer # Null
     /\ Lower(Unwrap(given)) = Lower(Unwrap(question_record.correct_answer))

\* IF p_answers->>question_record.id::TEXT = question_record.correct_answer
AnswerMatches(p_answers, question_record) ==
  IsTrue(SqlEq(JsonGetText(p_answers, question_record.id), question_record.correct_answer))

\* FOR question_record IN ... LOOP ... v_correct := v_correct + 1 ... END LOOP
RECURSIVE ScoreLoop(_, _, _)
ScoreLoop(rows, p_answers, v_correct) ==
  IF rows = {} THEN v_correct
  ELSE LET question_record == CHOOSE q \in rows : TRUE
       IN ScoreLoop(rows \ {question_record}, p_answers,
                    IF AnswerMatches(p_answers, question_record)
                    THEN v_correct + 1 ELSE v_correct)

\* (variant: integer division, which truncates)
TruncatingDivision(n, d) == n \div d

\* ROUND(n / d) on NUMERIC, n >= 0, d > 0: to the nearest integer, a half away
\* from zero
RoundNumeric(n, d) == (2 * n + d) \div (2 * d)

\* IF v_total > 0 THEN ROUND((v_correct::NUMERIC / v_total) * 100) ELSE 0
PercentScore(v_correct, v_total) ==
  IF v_total > 0 THEN RoundNumeric(v_correct * 100, v_total) ELSE 0

\* (variant: the SET list without "answers = p_answers")
UpdatedAttemptKeepingAnswers(row, p_answers, v_score, now) ==
  [row EXCEPT !.score = Val(v_score), !.submitted_at = Val(now)]

\* UPDATE exam_attempts SET answers = p_answers, score = v_score, submitted_at = NOW()
UpdatedAttempt(row, p_answers, v_score, now) ==
  [row EXCEPT !.answers = p_answers, !.score = Val(v_score), !.submitted_at = Val(now)]

\* RETURN QUERY SELECT v_score, v_correct, v_total
ReturnedRow(v_score, v_correct, v_total) ==
  [score |-> v_score, correct_count |-> v_correct, total_count |-> v_total]

IdleCall ==
  [pc |-> "idle", p_attempt_id |-> UnknownAttemptId, p_session_id |-> Null,
   p_answers |-> Null, now |-> 0, v_exam_id |-> Null, v_correct |-> 0,
   v_total |-> Null, v_score |-> Null, result |-> Null, error |-> Null]

\* The call arrives: its transaction starts (NOW() is fixed) and the first
\* statement, the SELECT of lines 43-47, runs; a miss raises and aborts.
\* dt is the time gone by since the previous transaction started.  What an
\* aborted call keeps is its parameters and the error raised.
SubmitCheck(c, p_attempt_id, p_session_id, p_answers, dt) ==
  /\ call[c].pc = "idle"
  /\ \A d \in Calls : d < c => call[d].pc # "idle"
  /\ clock + dt <= MaxClock
  /\ clock' = clock + dt
  /\ LET v_exam_id == SelectAttemptExam(attempts, p_attempt_id, p_session_id)
         begun == [call[c] EXCEPT !.p_attempt_id = p_attempt_id,
                                   !.p_session_id = p_session_id]
     IN call' = [call EXCEPT ![c] =
                   IF v_exam_id = Null
                   THEN [begun EXCEPT !.pc = "raised", !.error = Val(InvalidAttemptError)]
                   ELSE [begun EXCEPT !.pc = "checked",
                                      !.p_answers = p_answers,
                                      !.now = clock',
                                      !.v_exam_id = v_exam_id]]
  /\ UNCHANGED <<exams, questions, attempts, startResult>>

\* The scoring loop: one statement, one snapshot of questions.
SubmitScore(c) ==
  /\ call[c].pc = "checked"
  /\ call' = [call EXCEPT ![c].pc = "scored",
                          ![c].v_correct =
                             ScoreLoop(QuestionsOf(questions, call[c].v_exam_id),
                                       call[c].p_answers, call[c].v_correct)]
  /\ UNCHANGED <<exams, questions, attempts, clock, startResult>>

\* (variant: v_total taken from the number of answers supplied)
SubmitCountOfAnswers(c) ==
  /\ call[c].pc = "scored"
  /\ LET v_total == Cardinality(DOMAIN Unwrap(call[c].p_answers))
     IN call' = [call EXCEPT ![c].pc = "counted",
                             ![c].v_total = Val(v_total),
                             ![c].v_score = Val(PercentScore(call[c].v_correct, v_total))]
  /\ UNCHANGED <<exams, questions, attempts, clock, startResult>>

\* SELECT COUNT( * ) INTO v_total, then the percentage.
SubmitCount(c) ==
  /\ call[c].pc = "scored"
  /\ LET v_total == Cardinality(QuestionsOf(questions, call[c].v_exam_id))
     IN call' = [call EXCEPT ![c].pc = "counted",
                             ![c].v_total = Val(v_total),
                             ![c].v_score = Val(PercentScore(call[c].v_correct, v_total))]
  /\ UNCHANGED <<exams, questions, attempts, clock, startResult>>

\* Whether another transaction holds the row of attempt a locked by an
\* UPDATE it has not committed.
RowLocked(c, a) == \E d \in Calls \ {c} : call[d].pc = "updated" /\ call[d].p_attempt_id = a

\* The UPDATE of lines 75-80: waits for the row lock; its WHERE names id and
\* session_id only.
SubmitUpdate(c) ==
  /\ call[c].pc = "counted"
  /\ ~RowLocked(c, call[c].p_attempt_id)
  /\ call' = [call EXCEPT ![c].pc = "updated"]
  /\ UNCHANGED <<exams, questions, attempts, clock, startResult>>

\* RETURN QUERY and commit: the row written by the UPDATE becomes visible.
SubmitReturn(c) ==
  /\ call[c].pc = "updated"
  /\ LET a == call[c].p_attempt_id
     IN attempts' =
          IF a \in DOMAIN attempts
             /\ IsTrue(SqlEq(attempts[a].session_id, call[c].p_session_id))
          THEN [attempts EXCEPT ![a] =
                  UpdatedAttempt(attempts[a], call[c].p_answers,
                                 Unwrap(call[c].v_score), call[c].now)]
          ELSE attempts
  /\ call' = [call EXCEPT ![c].pc = "returned",
                          ![c].result = Val(ReturnedRow(Unwrap(call[c].v_score),
                                                        call[c].v_correct,
                                                        Unwrap(call[c].v_total)))]
  /\ UNCHANGED <<exams, questions, clock, startResult>>

\* --------------------------------------------------- start_exam_attempt
\* The function as replaced by the solo-mode migration.
StartOutcome(rows, p_exam_id, uid) ==
  IF p_exam_id \notin DOMAIN rows THEN "Exam not found"
  ELSE LET v_is_published == rows[p_exam_id].is_published
           v_is_solo == rows[p_exam_id].solo_mode
           v_created_by == rows[p_exam_id].created_by
       IN IF IsTrue(SqlAnd(SqlNot(v_is_published),
                           SqlNot(SqlAnd(v_is_solo, SqlEq(v_created_by, uid)))))
          THEN "Exam is not available"
          ELSE IF IsTrue(SqlAnd(v_is_solo, SqlNe(v_created_by, uid)))
          THEN "This exam is only available in solo mode for the owner"
          ELSE "ok"

NextAttemptId == AttemptIdPool[Cardinality(DOMAIN attempts) + 1]

StartExamAttempt(uid, p_exam_id, p_session_id, dt) ==
  /\ Cardinality(DOMAIN attempts) < MaxAttempts
  /\ clock + dt <= MaxClock
  /\ clock' = clock + dt
  /\ LET outcome == StartOutcome(exams, p_exam_id, uid)
     IN /\ startResult' = outcome
        /\ attempts' =
             IF outcome = "ok"
             THEN [a \in DOMAIN attempts \cup {NextAttemptId} |->
                     IF a = NextAttemptId
                     THEN AttemptRow(a, p_exam_id, p_session_id, Null, clock')
                     ELSE attempts[a]]
             ELSE attempts
  /\ UNCHANGED <<exams, questions, call>>

\* A caller's request to start_exam_attempt with the answer it got: the error
\* raised, or the row of RETURN QUERY SELECT v_attempt_id, v_started_at.
NoStartCall ==
  [uid |-> Null, p_exam_id |-> "none", p_session_id |-> Null, outcome |-> "none",
   returned |-> Null]

StartCall(uid, p_exam_id, p_session_id, dt) ==
  /\ StartExamAttempt(uid, p_exam_id, p_session_id, dt)
  /\ startCall' =
       [uid |-> uid, p_exam_id |-> p_exam_id, p_session_id |-> p_session_id,
        outcome |-> startResult',
        returned |-> IF startResult' = "ok"
                     THEN Val([attempt_id |-> NextAttemptId,
                               started_at |-> attempts'[NextAttemptId].started_at])
                     ELSE Null]
  /\ UNCHANGED <<payload, directResult, pageVars, authorVars>>

\* ------------------------------------------------- row-level policies
\* The policies on exam_attempts, migration by migration.
PoliciesCreated ==
  {"Anyone can create exam attempts for published exams",
   "Anyone can update their own attempt",
   "Exam owners can view attempts"}

PoliciesAfterUpdateFix ==
  (PoliciesCreated \ {"Anyone can update their own attempt"})
    \cup {"Students can update their own attempt by id"}

\* (variant: the migration without its step 5, the DROP POLICY of the
\* permissive UPDATE policy)
PoliciesKeepingUpdateById ==
  (PoliciesAfterUpdateFix \ {"Anyone can create exam attempts for published exams"})
    \cup {"Students can update their own attempt with session",
          "No direct insert - use RPC"}

PoliciesAfterRpcMigration ==
  (PoliciesAfterUpdateFix \ {"Students can update their own attempt by id",
                             "Anyone can create exam attempts for published exams"})
    \cup {"Students can update their own attempt with session",
          "No direct insert - use RPC"}

AttemptPolicies == PoliciesAfterRpcMigration

PolicyCommand(name) ==
  CASE name = "Anyone can create exam attempts for published exams" -> "INSERT"
    [] name = "No direct insert - use RPC" -> "INSERT"
    [] name = "Anyone can update their own attempt" -> "UPDATE"
    [] name = "Students can update their own attempt by id" -> "UPDATE"
    [] name = "Students can update their own attempt with session" -> "UPDATE"
    [] name = "Exam owners can view attempts" -> "SELECT"

\* EXISTS (SELECT 1 FROM exams WHERE exams.id = row.exam_id AND cond(exams))
ExamOwnedBy(row, uid) ==
  row.exam_id \in DOMAIN exams /\ IsTrue(SqlEq(exams[row.exam_id].created_by, uid))
ExamPublished(row) ==
  row.exam_id \in DOMAIN exams /\ IsTrue(SqlEq(exams[row.exam_id].is_published, Val(TRUE)))

\* USING (...): which existing rows the command may touch
PolicyUsing(name, row, uid) ==
  CASE name = "Anyone can update their own attempt" -> TRUE
    [] name = "Students can update their own attempt by id" -> TRUE
    [] name = "Students can update their own attempt with session" -> FALSE
    [] name = "Exam owners can view attempts" -> ExamOwnedBy(row, uid)
    [] OTHER -> TRUE

\* WITH CHECK (...): which new rows the command may leave; USING when not given
PolicyCheck(name, row, uid) ==
  CASE name = "Anyone can create exam attempts for published exams" -> ExamPublished(row)
    [] name = "No direct insert - use RPC" -> FALSE
    [] name = "Students can update their own attempt by id" -> row.submitted_at = Null
    [] name = "Students can update their own attempt with session" -> FALSE
    [] OTHER -> PolicyUsing(name, row, uid)

\* permissive policies of one command are OR-ed; no policy, no access
RowVisible(cmd, row, uid) ==
  \E name \in AttemptPolicies : PolicyCommand(name) = cmd /\ PolicyUsing(name, row, uid)
RowAccepted(cmd, row, uid) ==
  \E name \in AttemptPolicies : PolicyCommand(name) = cmd /\ PolicyCheck(name, row, uid)

\* "Users can view questions of their exams" ON questions FOR SELECT
QuestionVisible(q, uid) ==
  /\ q.exam_id \in DOMAIN exams
  /\ IsTrue(SqlOr(SqlEq(exams[q.exam_id].created_by, uid),
                  SqlEq(exams[q.exam_id].is_published, Val(TRUE))))

\* ---------------------------------------------------------- direct reads
\* supabase.from('questions').select('*').eq('exam_id', e)
SelectQuestions(uid, e) == {q \in questions : q.exam_id = e /\ QuestionVisible(q, uid)}

\* the view student_exam_questions as the solo-mode migration recreates it
StudentViewColumns ==
  {"id", "exam_id", "question_text", "question_type", "options", "order_index",
   "image_url", "created_at"}

StudentExamQuestions(uid) ==
  {[col \in StudentViewColumns |-> q[col]] :
     q \in {r \in questions :
              /\ r.exam_id \in DOMAIN exams
              /\ IsTrue(SqlOr(SqlEq(exams[r.exam_id].is_published, Val(TRUE)),
                              SqlAnd(SqlEq(exams[r.exam_id].solo_mode, Val(TRUE)),
                                     SqlEq(exams[r.exam_id].created_by, uid))))}}

\* supabase.from('student_exam_questions').select('*').eq('exam_id', e)
SelectStudentExamQuestions(uid, e) == {q \in StudentExamQuestions(uid) : q.exam_id = e}

ReadQuestions(uid, e) ==
  /\ payload' = [uid |-> uid, relation |-> "questions", rows |-> SelectQuestions(uid, e)]
  /\ UNCHANGED <<exams, questions, attempts, clock, call, startResult, directResult, pageVars, startCall, authorVars>>

ReadStudentExamQuestions(uid, e) ==
  /\ payload' = [uid |-> uid, relation |-> "student_exam_questions",
                 rows |-> SelectStudentExamQuestions(uid, e)]
  /\ UNCHANGED <<exams, questions, attempts, clock, call, startResult, directResult, pageVars, startCall, authorVars>>

\* --------------------------------------------------------- direct writes
\* supabase.from('exam_attempts').update({answers, score, submitted_at}).eq('id', a)
DirectUpdateAttempt(uid, a, answers, score, submitted_at) ==
  /\ LET touched == /\ a \in DOMAIN attempts
                    /\ RowVisible("UPDATE", attempts[a], uid)
                    /\ RowVisible("SELECT", attempts[a], uid)
         new == [attempts[a] EXCEPT !.answers = answers, !.score = score,
                                    !.submitted_at = submitted_at]
     IN IF ~touched
        THEN directResult' = "no row updated" /\ UNCHANGED attempts
        ELSE IF ~RowAccepted("UPDATE", new, uid)
        THEN directResult' = "new row violates row-level security policy"
             /\ UNCHANGED attempts
        ELSE directResult' = "updated" /\ attempts' = [attempts EXCEPT ![a] = new]
  /\ UNCHANGED <<exams, questions, clock, call, startResult, payload, pageVars, startCall, authorVars>>

\* supabase.from('exam_attempts').insert({exam_id, student_name, student_email, answers: {}})
DirectInsertAttempt(uid, e) ==
  /\ Cardinality(DOMAIN attempts) < MaxAttempts
  /\ LET new == AttemptRow(NextAttemptId, e, Null, Val(<< >>), clock)
     IN IF ~RowAccepted("INSERT", new, uid)
        THEN directResult' = "new row violates row-level security policy"
             /\ UNCHANGED attempts
        ELSE /\ directResult' = "inserted"
             /\ attempts' = [a \in DOMAIN attempts \cup {NextAttemptId} |->
                               IF a = NextAttemptId THEN new ELSE attempts[a]]
  /\ UNCHANGED <<exams, questions, clock, call, startResult, payload, pageVars, startCall, authorVars>>

\* -------------------------------------------------------- TakeExam page
\* React as the page relies on it.  A set function changes the state for the
\* next render; a handler, and a callback made by useCallback, reads the values
\* of the render that created it.  Updates made in a click handler are
\* rendered before the next event is handled; updates made in a timer callback
\* or after an await are rendered later, in a step of their own (Render).  An
\* effect's cleanup and setup run with the render that changes its
\* dependencies, mounts or unmounts its component.

\* (variant: fetchExam as first written, reading the table questions)
FetchedQuestionsFromTable(uid, id) == SelectQuestions(uid, id)

\* supabase.from('student_exam_questions').select('*').eq('exam_id', id)
FetchedQuestions(uid, id) == SelectStudentExamQuestions(uid, id)

\* the useState initial values; id is the route parameter, user the signed-in
\* user.  pending and args: the submitExam invocations awaiting an answer, and
\* the parameters each one sent.
InitialPage(id, user) ==
  [id |-> id, user |-> user, sessionId |-> Val("s1"), gone |-> FALSE,
   loading |-> TRUE, submitting |-> FALSE, exam |-> Null, questions |-> {},
   fullQuestions |-> {}, answers |-> << >>, attemptId |-> Null, startedAt |-> Null,
   submitted |-> FALSE, score |-> Null, correctCount |-> 0,
   showSubmitDialog |-> FALSE, showSummary |-> FALSE, started |-> FALSE,
   pending |-> [c \in Calls |-> "none"],
   args |-> [c \in Calls |-> Null]]

\* the state a render reads
Snapshot(p) == [f \in DOMAIN p \ {"pending", "args"} |-> p[f]]

\* which of its views the page renders from state r
ViewOf(r) ==
  IF r.gone THEN "gone"
  ELSE IF r.loading THEN "loading"
  ELSE IF r.submitted THEN "results"
  ELSE IF ~r.started THEN "start"
  ELSE IF r.showSummary THEN "summary"
  ELSE "exam"

PageView == ViewOf(rendered)

\* (variant: the text as typed)
Untrimmed(text) == text

\* String.prototype.trim on the texts the model types
Trimmed(text) ==
  CASE text \in {" ", "  "} -> ""
    [] text = " A " -> "A"
    [] OTHER -> text

\* Object.keys(answers).filter(key => answers[key]?.trim()).length
AnsweredCount == Cardinality({k \in DOMAIN rendered.answers : Trimmed(rendered.answers[k]) # ""})
UnansweredCount == Cardinality(rendered.questions) - AnsweredCount

\* isCorrect: answers[questionId] === correctAnswer
IsCorrect(answers, questionId, correctAnswer) ==
  questionId \in DOMAIN answers /\ answers[questionId] = correctAnswer

\* the questions the results view marks Correct:
\* isCorrect(question.id, question.correct_answer || '')
MarkedCorrect(r) ==
  {q \in r.fullQuestions :
     IsCorrect(r.answers, q.id,
               IF q.correct_answer = Null THEN "" ELSE Unwrap(q.correct_answer))}

\* what submitExam, made by useCallback in a render of state r, reads
Closure(r) == [attemptId |-> r.attemptId, answers |-> r.answers, submitting |-> r.submitting]

\* the submit_exam_attempt calls this run of the model has not used yet
FreeCalls(p) == {c \in Calls : p.pending[c] = "none" /\ call[c].pc = "idle" /\ p.args[c] = Null}

\* submitExam up to its first await, in the closure k, on the state p: the
\* guard, setSubmitting(true), the RPC sent
SubmitExam(p, k) ==
  IF k.attemptId = Null \/ k.submitting \/ FreeCalls(p) = {} THEN p
  ELSE LET c == CHOOSE d \in FreeCalls(p) : \A f \in FreeCalls(p) : d <= f
       IN [p EXCEPT !.submitting = TRUE, !.pending[c] = "sent",
                    !.args[c] = Val([p_attempt_id |-> Unwrap(k.attemptId),
                                     p_answers |-> k.answers])]

\* submitExam in closure k would send, and a call is left to send it with
CanSend(p, k) == (k.attemptId # Null /\ ~k.submitting) => FreeCalls(p) # {}

\* ------------------------------------------------------------ ExamTimer
\* new Date(data[0].started_at).getTime(): the database clock counts minutes,
\* the browser's clock (nowMs) milliseconds
DateOf(started_at) == 60000 * started_at

Max(a, b) == IF a >= b THEN a ELSE b

\* new Date(startedAt.getTime() + timeLimitMinutes * 60 * 1000)
EndTime(startedAt, timeLimitMinutes) == startedAt + timeLimitMinutes * 60 * 1000

\* Math.max(0, Math.floor((endTime.getTime() - now.getTime()) / 1000))
Remaining(endTime, t) == Max(0, (endTime - t) \div 1000)

\* the ExamTimer before it is first mounted
NoTimer ==
  [interval |-> FALSE, endTime |-> 0, timeRemaining |-> 0, onTimeUp |-> Null,
   lastRun |-> 0, timeUps |-> 0]

\* exam.time_limit_minutes of the exam the page fetched
TimeLimit(r) == IF r.exam = Null THEN Null ELSE exams[Unwrap(r.exam)].time_limit_minutes

\* (variant: the ExamTimer rendered in the results view too)
TimerMountedInResults(r) ==
  /\ ViewOf(r) \in {"exam", "summary", "results"}
  /\ TimeLimit(r) # Null /\ TimeLimit(r) # Val(0)
  /\ r.startedAt # Null

\* {exam.time_limit_minutes && startedAt && (<ExamTimer ... />)}
TimerMounted(r) ==
  /\ ViewOf(r) \in {"exam", "summary"}
  /\ TimeLimit(r) # Null /\ TimeLimit(r) # Val(0)
  /\ r.startedAt # Null

\* [timeLimitMinutes, startedAt, onTimeUp]; onTimeUp is handleTimeUp, new
\* whenever submitExam is
TimerDeps(r) == <<TimeLimit(r), r.startedAt, Closure(r)>>

\* (variant: handleTimeUp asking for confirmation when answers are missing)
HandleTimeUpAsking(p, k) ==
  IF Cardinality(DOMAIN k.answers) < Cardinality(p.questions)
  THEN [p EXCEPT !.showSubmitDialog = TRUE]
  ELSE SubmitExam(p, k)

\* handleTimeUp, made from the submitExam of closure k
HandleTimeUp(p, k) == SubmitExam(p, k)

\* (variant: a counter decremented at every tick)
UpdateTimerCountingDown(tm, p) ==
  LET remaining == Max(0, tm.timeRemaining - 1)
  IN [timer |-> [tm EXCEPT !.timeRemaining = remaining, !.lastRun = nowMs,
                           !.timeUps = IF remaining <= 0 /\ @ < MaxTimeUps THEN @ + 1 ELSE @],
      page |-> IF remaining <= 0 THEN HandleTimeUp(p, Unwrap(tm.onTimeUp)) ELSE p,
      sends |-> remaining <= 0 => CanSend(p, Unwrap(tm.onTimeUp)),
      timeUp |-> remaining <= 0]

\* (variant: onTimeUp called by the first run at zero only)
UpdateTimerFiringOnce(tm, p) ==
  LET remaining == Remaining(tm.endTime, nowMs)
      first == remaining <= 0 /\ tm.timeUps = 0
  IN [timer |-> [tm EXCEPT !.timeRemaining = remaining, !.lastRun = nowMs,
                           !.timeUps = IF first THEN @ + 1 ELSE @],
      page |-> IF first THEN HandleTimeUp(p, Unwrap(tm.onTimeUp)) ELSE p,
      sends |-> first => CanSend(p, Unwrap(tm.onTimeUp)),
      timeUp |-> first]

\* updateTimer with endTime and onTimeUp of the effect run tm, on the page
\* state p: the timer after it, and the page after onTimeUp if it was called
UpdateTimer(tm, p) ==
  LET remaining == Remaining(tm.endTime, nowMs)
  IN [timer |-> [tm EXCEPT !.timeRemaining = remaining, !.lastRun = nowMs,
                           !.timeUps = IF remaining <= 0 /\ @ < MaxTimeUps THEN @ + 1 ELSE @],
      page |-> IF remaining <= 0 THEN HandleTimeUp(p, Unwrap(tm.onTimeUp)) ELSE p,
      sends |-> remaining <= 0 => CanSend(p, Unwrap(tm.onTimeUp)),
      timeUp |-> remaining <= 0]

\* (variant: the effect without its cleanup)
CleanupKeepingInterval(tm) == tm

\* return () => clearInterval(interval)
Cleanup(tm) == [tm EXCEPT !.interval = FALSE]

\* the effect of ExamTimer in the render of state r: const endTime ...;
\* updateTimer(); setInterval(updateTimer, 1000)
SetupTimer(tm, r, p) ==
  UpdateTimer([tm EXCEPT !.interval = TRUE,
                         !.endTime = EndTime(DateOf(Unwrap(r.startedAt)), Unwrap(TimeLimit(r))),
                         !.onTimeUp = Val(Closure(r))], p)

\* The render of the page state p and the effects it runs: the ExamTimer is
\* unmounted, mounted, or its effect run again when a dependency changed.
Commit(p) ==
  LET r == Snapshot(p)
  IN IF TimerMounted(r)
     THEN IF /\ TimerMounted(rendered) /\ ViewOf(rendered) = ViewOf(r)
             /\ TimerDeps(rendered) = TimerDeps(r)
          THEN [timer |-> timer, page |-> p, sends |-> TRUE, timeUp |-> FALSE]
          ELSE SetupTimer(IF TimerMounted(rendered) THEN Cleanup(timer) ELSE timer, r, p)
     ELSE [timer |-> IF TimerMounted(rendered) THEN Cleanup(timer) ELSE timer,
           page |-> p, sends |-> TRUE, timeUp |-> FALSE]

\* a click handler that leaves the page state p, and the render that follows it
Handled(name, p) ==
  LET c == Commit(p)
  IN /\ c.sends
     /\ page' = c.page
     /\ rendered' = Snapshot(p)
     /\ timer' = c.timer
     /\ event' = [name |-> name, timeUp |-> c.timeUp]
     /\ nowMs' = nowMs
     /\ UNCHANGED <<exams, questions, attempts, clock, call, startResult, payload,
                    directResult, startCall, authorVars>>

\* a callback after an await that leaves the page state p, not yet rendered
Resumed(name, p) ==
  /\ page' = p
  /\ event' = [name |-> name, timeUp |-> FALSE]
  /\ UNCHANGED <<rendered, timer, nowMs>>

\* the render of updates made outside a click handler
Render ==
  /\ ~rendered.gone
  /\ Snapshot(page) # rendered
  /\ LET c == Commit(page)
     IN /\ c.sends
           /\ page' = c.page
        /\ rendered' = Snapshot(page)
        /\ timer' = c.timer
        /\ event' = [name |-> "render", timeUp |-> c.timeUp]
  /\ nowMs' = nowMs
  /\ UNCHANGED <<exams, questions, attempts, clock, call, startResult, payload,
                 directResult, startCall, authorVars>>

\* fetchExam: the exam if published, and its questions from the view
FetchExam ==
  /\ ~page.gone /\ page.loading
  /\ LET found == /\ page.id \in DOMAIN exams
                  /\ IsTrue(SqlEq(exams[page.id].is_published, Val(TRUE)))
     IN IF ~found
        THEN Handled("navigate", [page EXCEPT !.gone = TRUE])
        ELSE /\ Resumed("fetchExam",
                        [page EXCEPT !.exam = Val(page.id),
                                     !.questions = FetchedQuestions(Val(page.user), page.id),
                                     !.loading = FALSE])
             /\ UNCHANGED <<exams, questions, attempts, clock, call, startResult, payload,
                            directResult, startCall, authorVars>>

\* (variant: startedAt taken from the browser's clock)
StartedAtClientClock(p, failed) ==
  IF failed THEN p
  ELSE [p EXCEPT !.attemptId = Val(NextAttemptId), !.startedAt = Val(nowMs \div 60000),
                 !.started = TRUE]

\* startExam after the RPC: if (error || !data || data.length === 0) return;
\* else setAttemptId, setStartedAt, setStarted(true)
Started(p, failed) ==
  IF failed THEN p
  ELSE [p EXCEPT !.attemptId = Val(NextAttemptId), !.startedAt = Val(clock'),
                 !.started = TRUE]

\* startExam: the RPC and what the page does with its answer; the answer is
\* an error when the function raised, or when the request was not delivered
StartExam(dt, delivered) ==
  /\ PageView = "start" /\ rendered.exam # Null
  /\ IF delivered
     THEN /\ StartExamAttempt(Val(page.user), Unwrap(rendered.exam), page.sessionId, dt)
          /\ Resumed("startExam", Started(page, startResult' # "ok"))
     ELSE /\ Resumed("startExam", Started(page, TRUE))
          /\ UNCHANGED <<exams, questions, attempts, clock, call, startResult>>
  /\ UNCHANGED <<payload, directResult, startCall, authorVars>>

\* setAnswers(prev => ({ ...prev, [question.id]: value }))
SetAnswer(id, value) ==
  /\ PageView = "exam"
  /\ id \in {q.id : q \in rendered.questions}
  /\ Handled("setAnswers",
             [page EXCEPT !.answers =
                [k \in DOMAIN page.answers \cup {id} |->
                   IF k = id THEN value ELSE page.answers[k]]])

\* handleSubmitClick (Review & Submit, disabled={submitting})
HandleSubmitClick ==
  /\ PageView = "exam" /\ ~rendered.submitting
  /\ Handled("handleSubmitClick", [page EXCEPT !.showSummary = TRUE])

\* goBackToExam
GoBackToExam ==
  /\ PageView = "summary" /\ ~rendered.showSubmitDialog
  /\ Handled("goBackToExam", [page EXCEPT !.showSummary = FALSE])

\* (variant: handleFinalSubmit without the confirmation)
HandleFinalSubmitUnasked ==
  /\ PageView = "summary" /\ ~rendered.submitting /\ ~rendered.showSubmitDialog
  /\ CanSend(page, Closure(rendered))
  /\ Handled("handleFinalSubmit", SubmitExam(page, Closure(rendered)))

\* handleFinalSubmit (Submit Exam, disabled={submitting}): the dialog when
\* something is unanswered, else submitExam
HandleFinalSubmit ==
  /\ PageView = "summary" /\ ~rendered.submitting /\ ~rendered.showSubmitDialog
  /\ IF UnansweredCount > 0
     THEN Handled("handleFinalSubmit", [page EXCEPT !.showSubmitDialog = TRUE])
     ELSE /\ CanSend(page, Closure(rendered))
          /\ Handled("handleFinalSubmit", SubmitExam(page, Closure(rendered)))

\* AlertDialogAction "Submit Anyway": onClick={submitExam}, and the dialog
\* closes (onOpenChange)
SubmitAnyway ==
  /\ PageView = "summary" /\ rendered.showSubmitDialog
  /\ CanSend(page, Closure(rendered))
  /\ Handled("submitAnyway",
             [SubmitExam(page, Closure(rendered)) EXCEPT !.showSubmitDialog = FALSE])

\* AlertDialogCancel "Go Back"
DismissDialog ==
  /\ PageView = "summary" /\ rendered.showSubmitDialog
  /\ Handled("dismissDialog", [page EXCEPT !.showSubmitDialog = FALSE])

\* the candidate leaves the page: the component is unmounted
NavigateAway ==
  /\ ~rendered.gone
  /\ Handled("navigate", [page EXCEPT !.gone = TRUE])

\* time passes on the browser's clock
Pass(instants) ==
  /\ \E t \in instants : t > nowMs /\ nowMs' = t
  /\ UNCHANGED <<exams, questions, attempts, clock, call, startResult, payload,
                 directResult, startCall, authorVars, page, rendered, timer, event>>

\* the interval of the ExamTimer fires, a second or more after it last ran
Tick ==
  /\ timer.interval
  /\ nowMs >= timer.lastRun + 1000
  /\ LET u == UpdateTimer(timer, page)
     IN /\ u.sends
        /\ timer' = u.timer
        /\ page' = u.page
        /\ event' = [name |-> "tick", timeUp |-> u.timeUp]
  /\ UNCHANGED <<exams, questions, attempts, clock, call, startResult, payload,
                 directResult, startCall, authorVars, rendered, nowMs>>

\* the RPC of a submitExam invocation reaches the database
SubmitArrives(c, dt) ==
  /\ page.pending[c] = "sent"
  /\ SubmitCheck(c, Unwrap(page.args[c]).p_attempt_id, page.sessionId,
                 Val(Unwrap(page.args[c]).p_answers), dt)
  /\ page' = [page EXCEPT !.pending[c] = "rpc"]
  /\ UNCHANGED <<payload, directResult, startCall, authorVars, rendered, timer, nowMs, event>>

\* (variant: the error branch without setSubmitting(false))
SubmitFailedStuck(p, c) == [p EXCEPT !.pending[c] = "none"]

\* (variant: the error branch going on to read the questions)
SubmitFailedFetching(p, c) == [p EXCEPT !.submitting = FALSE, !.pending[c] = "fetch"]

\* submitExam after the RPC, the error branch: setSubmitting(false); return
SubmitFailed(p, c) == [p EXCEPT !.submitting = FALSE, !.pending[c] = "none"]

\* the RPC of a submitExam invocation fails before it reaches the database
SubmitExamError(c) ==
  /\ ~page.gone
  /\ page.pending[c] = "sent"
  /\ Resumed("submitExam", [SubmitFailed(page, c) EXCEPT !.args[c] = Null])
  /\ UNCHANGED <<exams, questions, attempts, clock, call, startResult, payload,
                 directResult, startCall, authorVars>>

\* submitExam after the RPC: the error branch when the function raised, else
\* score and correct count set and the full questions requested
SubmitExamResponse(c) ==
  /\ ~page.gone
  /\ page.pending[c] = "rpc"
  /\ call[c].pc \in {"raised", "returned"}
  /\ Resumed("submitExam",
             IF call[c].pc = "returned"
             THEN [page EXCEPT !.score = Val(Unwrap(call[c].result).score),
                               !.correctCount = Unwrap(call[c].result).correct_count,
                               !.pending[c] = "fetch"]
             ELSE SubmitFailed(page, c))
  /\ UNCHANGED <<exams, questions, attempts, clock, call, startResult, payload,
                 directResult, startCall, authorVars>>

\* submitExam after the second await: setFullQuestions, setSubmitted(true),
\* setSubmitting(false)
FullQuestionsResponse(c) ==
  /\ ~page.gone
  /\ page.pending[c] = "fetch"
  /\ Resumed("submitExam",
             [page EXCEPT !.fullQuestions =
                             SelectQuestions(Val(page.user), Unwrap(page.exam)),
                          !.submitted = TRUE,
                          !.submitting = FALSE,
                          !.pending[c] = "none"])
  /\ UNCHANGED <<exams, questions, attempts, clock, call, startResult, payload,
                 directResult, startCall, authorVars>>

\* ------------------------------------------------------------- EditExam
\* The page of the exam's author.  phase: closed, open (the exam loaded),
\* then, in saveExam, updated (the exam row written) and deleted (the
\* questions of the exam deleted, the new set not yet inserted).  changed: the
\* author changed the questions; saves: saves completed; during: the attempts
\* in progress when a save began; early: the submit calls begun before a save
\* ended.
NoEditor ==
  [phase |-> "closed", id |-> "none", exam |-> Null, questions |-> {},
   changed |-> FALSE, saves |-> 0, during |-> {}, early |-> {}]

\* fetchExam of EditExam: the exam if the user created it, and its questions
EditorOpen(uid, id) ==
  /\ editor.phase = "closed" /\ editor.saves < MaxSaves
  /\ id \in DOMAIN exams /\ IsTrue(SqlEq(exams[id].created_by, Val(uid)))
  /\ editor' = [editor EXCEPT !.phase = "open", !.id = id, !.exam = Val(exams[id]),
                              !.questions = SelectQuestions(Val(uid), id)]
  /\ UNCHANGED <<exams, questions, attempts, clock, call, startResult, takerVars,
                 profiles, gen>>

\* <QuestionEditor questions={questions} onChange={setQuestions} />: the
\* author removes a question
EditorRemove(q) ==
  /\ editor.phase = "open" /\ q \in editor.questions
  /\ editor' = [editor EXCEPT !.questions = @ \ {q}, !.changed = TRUE]
  /\ UNCHANGED <<exams, questions, attempts, clock, call, startResult, takerVars,
                 profiles, gen>>

\* time_limit_minutes: timerEnabled ? exam.time_limit_minutes : null, where
\* timerEnabled is !!time_limit_minutes of the exam loaded
SavedTimeLimit(exam) == IF exam.time_limit_minutes = Val(0) THEN Null ELSE exam.time_limit_minutes

\* saveExam up to its first await: the exam row is updated
SaveUpdateExam ==
  /\ editor.phase = "open" /\ editor.questions # {}
  /\ exams' = [exams EXCEPT ![editor.id] =
                 [@ EXCEPT !.time_limit_minutes = SavedTimeLimit(Unwrap(editor.exam)),
                           !.is_published = Unwrap(editor.exam).is_published]]
  /\ editor' = [editor EXCEPT !.phase = "updated",
                              !.during = {a \in DOMAIN attempts :
                                            /\ attempts[a].exam_id = editor.id
                                            /\ attempts[a].submitted_at = Null}]
  /\ UNCHANGED <<questions, attempts, clock, call, startResult, takerVars, profiles, gen>>

\* supabase.from('questions').delete().eq('exam_id', id)
SaveDeleteQuestions ==
  /\ editor.phase = "updated"
  /\ questions' = {q \in questions : q.exam_id # editor.id}
  /\ editor' = [editor EXCEPT !.phase = "deleted"]
  /\ UNCHANGED <<exams, attempts, clock, call, startResult, takerVars, profiles, gen>>

\* questions.id DEFAULT gen_random_uuid(): the id of the row inserted for the
\* author's question q by the n-th save
InsertedQuestionId(q, n) == "s" \o ToString(n) \o "-" \o ToString(q.order_index + 1)

\* questionsToInsert: the author's questions without id and created_at, which
\* the table fills in
InsertedRow(q, n) == [q EXCEPT !.id = InsertedQuestionId(q, n), !.created_at = clock]

\* supabase.from('questions').insert(questionsToInsert); navigate('/exams')
SaveInsertQuestions ==
  /\ editor.phase = "deleted"
  /\ questions' = questions \cup {InsertedRow(q, editor.saves + 1) : q \in editor.questions}
  /\ editor' = [editor EXCEPT !.phase = "closed", !.saves = @ + 1,
                              !.early = @ \cup {c \in Calls : call[c].pc # "idle"}]
  /\ UNCHANGED <<exams, attempts, clock, call, startResult, takerVars, profiles, gen>>

\* --------------------------------------------------- generate-questions
\* user_profiles(user_id, ai_questions_generated, ai_questions_limit)
ProfileRow(u) == [user_id |-> u, ai_questions_generated |-> 0, ai_questions_limit |-> QuotaLimit]

GenRequests == 1..2

IdleRequest ==
  [pc |-> "idle", user |-> "none", profile |-> Null, questionsToGenerate |-> 0,
   returned |-> 0]

MathMin(S) == CHOOSE x \in S : \A y \in S : x <= y

\* Math.min(numQuestions || 5, remaining, 20)
QuestionsToGenerate(numQuestions, remaining) ==
  MathMin({IF numQuestions = 0 THEN 5 ELSE numQuestions, remaining, 20})

\* the request of user uid up to the call of the AI gateway: the profile is
\* read, and the request refused when nothing remains
GenCheck(r, uid, numQuestions) ==
  /\ gen[r].pc = "idle"
  /\ LET profile == profiles[uid]
         remaining == profile.ai_questions_limit - profile.ai_questions_generated
         questionsToGenerate == QuestionsToGenerate(numQuestions, remaining)
     IN gen' = [gen EXCEPT ![r] =
                  [pc |-> IF questionsToGenerate <= 0 THEN "limit" ELSE "asked",
                   user |-> uid, profile |-> Val(profile),
                   questionsToGenerate |-> questionsToGenerate, returned |-> 0]]
  /\ UNCHANGED <<exams, questions, attempts, clock, call, startResult, takerVars,
                 editor, profiles>>

\* the gateway answers with n questions (the array parsed from its text), or
\* fails
GenAnswer(r, n, ok) ==
  /\ gen[r].pc = "asked"
  /\ Unwrap(gen[r].profile).ai_questions_generated + n <= MaxUsage
  /\ gen' = [gen EXCEPT ![r].pc = IF ok THEN "generated" ELSE "failed",
                        ![r].returned = IF ok THEN n ELSE 0]
  /\ UNCHANGED <<exams, questions, attempts, clock, call, startResult, takerVars,
                 editor, profiles>>

\* update({ ai_questions_generated: profile.ai_questions_generated +
\* questions.length }).eq("user_id", user.id), and the response
GenUpdate(r) ==
  /\ gen[r].pc = "generated"
  /\ profiles' = [profiles EXCEPT ![gen[r].user].ai_questions_generated =
                    Unwrap(gen[r].profile).ai_questions_generated + gen[r].returned]
  /\ gen' = [gen EXCEPT ![r].pc = "done"]
  /\ UNCHANGED <<exams, questions, attempts, clock, call, startResult, takerVars, editor>>

\* the request is over; another one may come
GenEnd(r) ==
  /\ gen[r].pc \in {"limit", "failed", "done"}
  /\ gen' = [gen EXCEPT ![r] = IdleRequest]
  /\ UNCHANGED <<exams, questions, attempts, clock, call, startResult, takerVars,
                 editor, profiles>>

AuthorInit ==
  /\ editor = NoEditor
  /\ profiles = [u \in UserIds |-> ProfileRow(u)]
  /\ gen = [r \in GenRequests |-> IdleRequest]

\* --------------------------------------------------------- specification
\* the answers a caller may send to an exam whose first questions are q1, q2
AnswerMaps == {Val([q1 |-> "A"]), Val([q1 |-> "B", zz |-> "C"])}

InitBank(sizes) ==
  /\ exams = [e \in ExamIds |-> ExamRow(e)]
  /\ \E n \in sizes : questions = QuestionBank("e1", n) \cup QuestionBank("e2", 1)
  /\ attempts = << >>
  /\ clock = 0
  /\ call = [c \in Calls |-> IdleCall]
  /\ startResult = "none"
  /\ payload = [uid |-> Null, relation |-> "none", rows |-> {}]
  /\ directResult = "none"
  /\ startCall = NoStartCall
  /\ AuthorInit

\* the page as mounted for the route id and the signed-in user
PageInit(id, user) ==
  /\ page = InitialPage(id, user)
  /\ rendered = Snapshot(InitialPage(id, user))
  /\ timer = NoTimer
  /\ nowMs = 0
  /\ event = [name |-> "mount", timeUp |-> FALSE]

Init == InitBank({MaxQuestions}) /\ PageInit("e1", "u2")

AttemptIdsKnown == {AttemptIdPool[i] : i \in 1..MaxAttempts} \cup {UnknownAttemptId}

Next ==
  \/ \E uid \in AuthUids, e \in ExamIds \cup {"e0"}, s \in {Val("s1"), Null}, dt \in 0..1 :
       StartExamAttempt(uid, e, s, dt) /\ UNCHANGED clientVars
  \/ \E c \in Calls, a \in AttemptIdsKnown, s \in SessionTokens, m \in AnswerMaps,
        dt \in 0..1 :
       SubmitCheck(c, a, s, m, dt) /\ UNCHANGED clientVars
  \/ \E c \in Calls : SubmitScore(c) /\ UNCHANGED clientVars
  \/ \E c \in Calls : SubmitCount(c) /\ UNCHANGED clientVars
  \/ \E c \in Calls : SubmitUpdate(c) /\ UNCHANGED clientVars
  \/ \E c \in Calls : SubmitReturn(c) /\ UNCHANGED clientVars

Spec == Init /\ [][Next]_vars

\* The data-access boundary: what any client may write directly, next to
\* attempts taken through the two functions.
DirectPatches ==
  {<<Val([q1 |-> "A"]), Val(100), Null>>, <<Val([q1 |-> "A"]), Val(100), Val(clock)>>}

AccessNext ==
  \/ \E uid \in AuthUids, e \in ExamIds \cup {"e0"}, s \in {Val("s1"), Null}, dt \in 0..1 :
       StartExamAttempt(uid, e, s, dt) /\ UNCHANGED clientVars
  \/ \E a \in AttemptIdsKnown, s \in SessionTokens, m \in AnswerMaps, dt \in 0..1 :
       SubmitCheck(1, a, s, m, dt) /\ UNCHANGED clientVars
  \/ SubmitScore(1) /\ UNCHANGED clientVars
  \/ SubmitCount(1) /\ UNCHANGED clientVars
  \/ SubmitUpdate(1) /\ UNCHANGED clientVars
  \/ SubmitReturn(1) /\ UNCHANGED clientVars
  \/ \E uid \in AuthUids, a \in AttemptIdsKnown, patch \in DirectPatches :
       DirectUpdateAttempt(uid, a, patch[1], patch[2], patch[3])
  \/ \E uid \in AuthUids, e \in ExamIds : DirectInsertAttempt(uid, e)

AccessSpec == Init /\ [][AccessNext]_vars

\* The data-access boundary: what any client may read directly.
ReadNext ==
  \/ \E uid \in AuthUids, e \in ExamIds \cup {"e0"}, s \in {Val("s1"), Null}, dt \in 0..1 :
       StartExamAttempt(uid, e, s, dt) /\ UNCHANGED clientVars
  \/ \E a \in AttemptIdsKnown, s \in SessionTokens, m \in AnswerMaps, dt \in 0..1 :
       SubmitCheck(1, a, s, m, dt) /\ UNCHANGED clientVars
  \/ SubmitScore(1) /\ UNCHANGED clientVars
  \/ SubmitCount(1) /\ UNCHANGED clientVars
  \/ SubmitUpdate(1) /\ UNCHANGED clientVars
  \/ SubmitReturn(1) /\ UNCHANGED clientVars
  \/ \E uid \in AuthUids, e \in ExamIds : ReadQuestions(uid, e)
  \/ \E uid \in AuthUids, e \in ExamIds : ReadStudentExamQuestions(uid, e)

ReadSpec == Init /\ [][ReadNext]_vars

\* Scoring: one candidate takes exam e1, whose bank has 0..MaxScoredQuestions
\* questions, and submits one of these answer maps.
\* the first k questions answered with their key ("A" where there is none)
KeyedAnswers(k) ==
  [id \in {QuestionId("e1", i) : i \in 1..k} |->
     LET i == CHOOSE j \in 1..k : QuestionId("e1", j) = id
     IN IF CorrectAnswerOf(i) = Null THEN "A" ELSE Unwrap(CorrectAnswerOf(i))]

\* q1 differs in case, q2 is right, q3 has no key, the rest is not answered
MixedAnswers == [q1 |-> "a", q2 |-> "B", q3 |-> "A"]

ScoredAnswerMaps ==
  {Val(KeyedAnswers(k)) : k \in 0..MaxScoredQuestions}
    \cup {Val([q1 |-> text]) : text \in {"A", "a", "A ", " A", "B", ""}}
    \cup {Val(MixedAnswers), Val([q1 |-> "A", q2 |-> "C"]), Val([zz |-> "A"]),
          Val([q1 |-> "A", zz |-> "B", q99 |-> "A"])}

ScoreInit == InitBank(0..MaxScoredQuestions) /\ PageInit("e1", "u2")

ScoreNext ==
  \/ StartExamAttempt(Val("u2"), "e1", Val("s1"), 0) /\ UNCHANGED clientVars
  \/ \E m \in ScoredAnswerMaps :
       SubmitCheck(1, "a1", Val("s1"), m, 0) /\ UNCHANGED clientVars
  \/ SubmitScore(1) /\ UNCHANGED clientVars
  \/ SubmitCount(1) /\ UNCHANGED clientVars
  \/ SubmitUpdate(1) /\ UNCHANGED clientVars
  \/ SubmitReturn(1) /\ UNCHANGED clientVars

ScoreSpec == ScoreInit /\ [][ScoreNext]_vars

\* start_exam_attempt called by anyone on an exam in any state its columns
\* allow: is_published true, false or NULL; solo_mode true or false; created_by
\* a user or NULL.
ExamStates ==
  [id : {"e1"}, created_by : {Val("u1"), Null},
   is_published : {Val(TRUE), Val(FALSE), Null}, solo_mode : {Val(TRUE), Val(FALSE)},
   time_limit_minutes : {Val(1)}]

StartInit ==
  /\ \E row \in ExamStates : exams = [e \in ExamIds |-> IF e = "e1" THEN row ELSE ExamRow(e)]
  /\ questions = QuestionBank("e1", MaxQuestions) \cup QuestionBank("e2", 1)
  /\ attempts = << >>
  /\ clock = 0
  /\ call = [c \in Calls |-> IdleCall]
  /\ startResult = "none"
  /\ payload = [uid |-> Null, relation |-> "none", rows |-> {}]
  /\ directResult = "none"
  /\ startCall = NoStartCall
  /\ AuthorInit
  /\ PageInit("e1", "u2")

StartNext ==
  \E uid \in AuthUids, e \in ExamIds \cup {"e0"}, s \in SessionTokens, dt \in 0..1 :
    StartCall(uid, e, s, dt)

StartSpec == StartInit /\ [][StartNext]_vars

\* The TakeExam page of one signed-in user, and the calls it makes.
ClientInit ==
  /\ InitBank({MaxQuestions})
  /\ \E id \in ExamIds, user \in UserIds : PageInit(id, user)

\* the instants at which the model looks at the page: the end of the time
\* limit of an attempt started at minute 0
ClientInstants == {60000}

ServerSteps ==
  \/ \E c \in Calls : SubmitScore(c) /\ UNCHANGED clientVars
  \/ \E c \in Calls : SubmitCount(c) /\ UNCHANGED clientVars
  \/ \E c \in Calls : SubmitUpdate(c) /\ UNCHANGED clientVars
  \/ \E c \in Calls : SubmitReturn(c) /\ UNCHANGED clientVars

ClientNext ==
  \/ FetchExam
  \/ Render
  \/ \E delivered \in BOOLEAN : StartExam(0, delivered)
  \/ \E id \in {QuestionId("e1", i) : i \in 1..MaxQuestions} : SetAnswer(id, "A")
  \/ HandleSubmitClick
  \/ GoBackToExam
  \/ HandleFinalSubmit
  \/ SubmitAnyway
  \/ DismissDialog
  \/ Pass(ClientInstants)
  \/ Tick
  \/ \E c \in Calls : SubmitArrives(c, 0)
  \/ ServerSteps
  \/ \E c \in Calls : SubmitExamError(c)
  \/ \E c \in Calls : SubmitExamResponse(c)
  \/ \E c \in Calls : FullQuestionsResponse(c)

ClientSpec == ClientInit /\ [][ClientNext]_vars

\* The ExamTimer of one attempt, seen every half second around the end of the
\* time limit.
TimerInstants == {58500, 59000, 59500, 60000, 60500, 61000, 62000}

TimerNext ==
  \/ FetchExam
  \/ Render
  \/ \E dt \in 0..1, delivered \in BOOLEAN : StartExam(dt, delivered)
  \/ NavigateAway
  \/ Pass(TimerInstants)
  \/ Tick
  \/ \E c \in Calls : SubmitArrives(c, 0)
  \/ ServerSteps
  \/ \E c \in Calls : SubmitExamError(c)
  \/ \E c \in Calls : SubmitExamResponse(c)
  \/ \E c \in Calls : FullQuestionsResponse(c)

TimerInit == InitBank({MaxQuestions}) /\ PageInit("e1", "u2")

TimerSpec == TimerInit /\ [][TimerNext]_vars

\* The ExamTimer once the time is up, with a network that delivers a submit
\* request sooner or later.  Past the end time every reading of the clock
\* gives remaining 0, so the last instant stands for all later ones: Later is
\* a second passing there.
LiveInstants == {59000, 60000, 61000}

LastInstant == 61000

Later ==
  /\ nowMs = LastInstant
  /\ timer.interval /\ timer.lastRun = nowMs
  /\ timer' = [timer EXCEPT !.lastRun = nowMs - 1000]
  /\ UNCHANGED <<exams, questions, attempts, clock, call, startResult, payload,
                 directResult, startCall, authorVars, page, rendered, nowMs, event>>

LiveNext ==
  \/ FetchExam
  \/ Render
  \/ StartExam(0, TRUE)
  \/ NavigateAway
  \/ Pass(LiveInstants)
  \/ Later
  \/ Tick
  \/ \E c \in Calls : SubmitArrives(c, 0)
  \/ ServerSteps
  \/ \E c \in Calls : SubmitExamError(c)
  \/ \E c \in Calls : SubmitExamResponse(c)
  \/ \E c \in Calls : FullQuestionsResponse(c)

LiveInit == InitBank({MaxQuestions}) /\ PageInit("e1", "u2")

\* the browser runs what is due (renders, interval callbacks, continuations
\* after an await), time passes, the database runs a call to its end; of the
\* requests sent again and again, one reaches the database
LiveSpec ==
  /\ LiveInit /\ [][LiveNext]_vars
  /\ WF_vars(Render) /\ WF_vars(Tick) /\ WF_vars(Later) /\ WF_vars(Pass(LiveInstants))
  /\ WF_vars(ServerSteps)
  /\ \A c \in Calls : WF_vars(SubmitExamResponse(c)) /\ WF_vars(FullQuestionsResponse(c))
  /\ SF_vars(\E c \in Calls : SubmitArrives(c, 0))

\* An attempt on the published exam and its submit calls, while the author
\* has the exam open in EditExam and saves it.
EditAnswerMaps == {Val([q1 |-> "A", q2 |-> "B"]), Val([q1 |-> "A"])}

EditNext ==
  \/ StartExamAttempt(Val("u2"), "e1", Val("s1"), 0) /\ UNCHANGED clientVars
  \/ \E c \in Calls, a \in AttemptIdsKnown, m \in EditAnswerMaps :
       SubmitCheck(c, a, Val("s1"), m, 0) /\ UNCHANGED clientVars
  \/ ServerSteps
  \/ EditorOpen("u1", "e1")
  \/ \E q \in editor.questions : EditorRemove(q)
  \/ SaveUpdateExam
  \/ SaveDeleteQuestions
  \/ SaveInsertQuestions

EditInit == InitBank({MaxQuestions}) /\ PageInit("e1", "u2")

EditSpec == EditInit /\ [][EditNext]_vars

\* The generate-questions requests of the accounts, two at a time.
QuotaNext ==
  \/ \E r \in GenRequests, uid \in UserIds, numQuestions \in 0..2 : GenCheck(r, uid, numQuestions)
  \/ \E r \in GenRequests : \E n \in 0..(gen[r].questionsToGenerate + 1), ok \in BOOLEAN :
       GenAnswer(r, n, ok)
  \/ \E r \in GenRequests : GenUpdate(r)
  \/ \E r \in GenRequests : GenEnd(r)

QuotaInit == InitBank({MaxQuestions}) /\ PageInit("e1", "u2")

QuotaSpec == QuotaInit /\ [][QuotaNext]_vars

\* The answer inputs of one attempt: texts typed, cleared, or made of blanks.
AnswerTexts == {"A", " A ", "", " ", "  "}

AnswerNext ==
  \/ FetchExam
  \/ Render
  \/ StartExam(0, TRUE)
  \/ \E id \in {QuestionId("e1", i) : i \in 1..MaxQuestions}, value \in AnswerTexts :
       SetAnswer(id, value)
  \/ HandleSubmitClick
  \/ GoBackToExam
  \/ HandleFinalSubmit
  \/ DismissDialog

AnswerInit == InitBank(1..MaxQuestions) /\ PageInit("e1", "u2")

AnswerSpec == AnswerInit /\ [][AnswerNext]_vars

\* ================================================================ claims
Returned(c) == call[c].pc = "returned"
Submitted(a) == a \in DOMAIN attempts /\ attempts[a].submitted_at # Null

\* C1: of the submit_exam_attempt calls made for one attempt, whatever their
\* interleaving, at most one succeeds, so the attempt is written once.
C1_AtMostOneSubmitSucceeds ==
  \A c, d \in Calls :
    (c # d /\ Returned(c) /\ Returned(d)) => call[c].p_attempt_id # call[d].p_attempt_id

\* C2: once an attempt is submitted, a later call for it raises the
\* invalid-attempt error, and its answers, score and submitted_at never change
\* again.
C2_SubmittedAttemptIsFinal ==
  [][/\ \A a \in DOMAIN attempts :
          attempts[a].submitted_at # Null => attempts'[a] = attempts[a]
     /\ \A c \in Calls :
          (call[c].pc = "idle" /\ call'[c].pc # "idle"
             /\ Submitted(call'[c].p_attempt_id))
          => call'[c].pc = "raised" /\ call'[c].error = Val(InvalidAttemptError)]_vars

\* C3: no read the data-access layer permits hands the answer key of a
\* published exam to a caller who does not own the exam while no attempt on
\* that exam is submitted.
AnswerKeyColumns == {"correct_answer", "solution", "explanation"}

C3_AnswerKeyRedactedAtBoundary ==
  \A r \in payload.rows :
    (/\ ExamPublished(r)
     /\ ~ExamOwnedBy(r, payload.uid)
     /\ ~\E a \in DOMAIN attempts : attempts[a].exam_id = r.exam_id /\ Submitted(a))
    => DOMAIN r \cap AnswerKeyColumns = {}

\* C5: under the final policies every direct INSERT or UPDATE on
\* exam_attempts is rejected; a row appears only through start_exam_attempt,
\* and score and submitted_at change only in the step in which a
\* submit_exam_attempt call returns, to the score that call computed.
DirectWriteRejected ==
  directResult \in {"none", "no row updated", "new row violates row-level security policy"}

C5_OnlySubmitWritesScore ==
  /\ []DirectWriteRejected
  /\ [][\A a \in DOMAIN attempts' :
          /\ a \notin DOMAIN attempts =>
               /\ startResult' = "ok" /\ directResult' = directResult
               /\ attempts'[a].score = Null /\ attempts'[a].submitted_at = Null
          /\ (a \in DOMAIN attempts
                /\ (attempts'[a].score # attempts[a].score
                      \/ attempts'[a].submitted_at # attempts[a].submitted_at))
             => \E c \in Calls :
                  /\ call[c].pc = "updated" /\ call'[c].pc = "returned"
                  /\ call[c].p_attempt_id = a
                  /\ attempts'[a].score = call[c].v_score
                  /\ attempts'[a].score =
                       Val(PercentScore(call[c].v_correct, Unwrap(call[c].v_total)))]_vars

C5_Witness ==
  /\ directResult # "none"
  /\ \E a \in DOMAIN attempts : attempts[a].score # Null

\* C6: a call whose attempt id is unknown, whose token differs from the
\* attempt's (a stored NULL token always differs) or whose attempt is
\* already submitted raises the one invalid-attempt error and writes nothing.
C6_InvalidAttemptFailsAlike ==
  [][\A c \in Calls :
       /\ (call[c].pc = "idle" /\ call'[c].pc # "idle") =>
            LET a == call'[c].p_attempt_id
                s == call'[c].p_session_id
            IN (\/ a \notin DOMAIN attempts
                \/ attempts[a].session_id = Null
                \/ attempts[a].session_id # s
                \/ attempts[a].submitted_at # Null)
               => /\ call'[c].pc = "raised"
                  /\ call'[c].error = Val(InvalidAttemptError)
                  /\ attempts' = attempts
       /\ call[c].pc = "raised" => call'[c] = call[c]]_vars

C6_Witness ==
  /\ Returned(1)
  /\ call[2].pc = "raised"
  /\ call[2].p_attempt_id = call[1].p_attempt_id
  /\ call[2].p_session_id = call[1].p_session_id
  /\ call[2].error = Val(InvalidAttemptError)

\* C10: in the step in which a call returns, the attempt row holds the
\* answers exactly as supplied, the score returned and a submitted_at, and
\* what is returned is score, correct_count and total_count alone.
C10_SubmitStoresWhatItReturns ==
  [][\A c \in Calls :
       (call[c].pc = "updated" /\ call'[c].pc = "returned") =>
         LET a == call[c].p_attempt_id
             returned == Unwrap(call'[c].result)
         IN /\ a \in DOMAIN attempts'
            /\ attempts'[a].answers = call[c].p_answers
            /\ attempts'[a].score = Val(returned.score)
            /\ attempts'[a].submitted_at # Null
            /\ DOMAIN returned = {"score", "correct_count", "total_count"}]_vars

C10_Witness ==
  \E c \in Calls :
    /\ Returned(c)
    /\ "zz" \in DOMAIN Unwrap(call[c].p_answers)
    /\ attempts[call[c].p_attempt_id].answers = call[c].p_answers
    /\ attempts[call[c].p_attempt_id].score = Val(0)

\* the exam of the attempt a call names
ExamOfCall(c) == attempts[call[c].p_attempt_id].exam_id

\* the questions of exam e that the answers map answers with exactly the key
ExactlyAnswered(e, answers) ==
  {q \in questions :
     /\ q.exam_id = e
     /\ q.correct_answer # Null
     /\ q.id \in DOMAIN answers
     /\ answers[q.id] = Unwrap(q.correct_answer)}

\* C7: the correct_count a call returns is the number of questions of the
\* attempt's exam, as the scoring statement finds them, whose answer in the
\* map supplied equals the key exactly.
C7_CorrectCountIsExactMatches ==
  [][\A c \in Calls :
       /\ (call[c].pc = "checked" /\ call'[c].pc = "scored") =>
            call'[c].v_correct =
              Cardinality(ExactlyAnswered(ExamOfCall(c), Unwrap(call[c].p_answers)))
       /\ call[c].pc \in {"scored", "counted", "updated"} =>
            call'[c].v_correct = call[c].v_correct
       /\ (call[c].pc = "updated" /\ call'[c].pc = "returned") =>
            Unwrap(call'[c].result).correct_count = call[c].v_correct]_vars

C7_Witness ==
  /\ Returned(1)
  /\ call[1].p_answers = Val(MixedAnswers)
  /\ Cardinality({q \in questions : q.exam_id = "e1"}) = 4
  /\ Unwrap(call[1].result).correct_count = 1

\* C8: the total_count a call returns is the number of questions of the
\* attempt's exam, as the counting statement finds them, whatever the keys of
\* the answers map.
C8_TotalCountIsQuestionCount ==
  [][\A c \in Calls :
       /\ (call[c].pc = "scored" /\ call'[c].pc = "counted") =>
            call'[c].v_total =
              Val(Cardinality({q \in questions : q.exam_id = ExamOfCall(c)}))
       /\ call[c].pc \in {"counted", "updated"} => call'[c].v_total = call[c].v_total
       /\ (call[c].pc = "updated" /\ call'[c].pc = "returned") =>
            Val(Unwrap(call'[c].result).total_count) = call[c].v_total]_vars

C8_Witness ==
  /\ Returned(1)
  /\ call[1].p_answers = Val(KeyedAnswers(2))
  /\ Cardinality({q \in questions : q.exam_id = "e1"}) = 4
  /\ Unwrap(call[1].result) = [score |-> 50, correct_count |-> 2, total_count |-> 4]

\* C9: the score a call returns is correct_count / total_count * 100 rounded
\* to the nearest integer, a half upwards, and 0 when total_count is 0.
C9_ScoreIsRoundedPercentage ==
  \A c \in Calls :
    Returned(c) =>
      LET r == Unwrap(call[c].result)
      IN IF r.total_count > 0
         THEN /\ 2 * r.total_count * r.score - r.total_count <= 200 * r.correct_count
              /\ 200 * r.correct_count < 2 * r.total_count * r.score + r.total_count
         ELSE r.score = 0

C9_Witness ==
  /\ Returned(1)
  /\ Unwrap(call[1].result) = [score |-> 13, correct_count |-> 1, total_count |-> 8]

\* C4: while the page does not show the attempt as submitted -- and always
\* while the attempt is not submitted in the database -- the page holds no
\* full questions, and no question record it holds, like no row of the view
\* student_exam_questions for any caller, carries correct_answer, solution or
\* explanation.
PageAttemptSubmitted == page.attemptId # Null /\ Submitted(Unwrap(page.attemptId))

C4_PageHoldsRedactedQuestions ==
  /\ (~page.submitted \/ ~PageAttemptSubmitted) =>
       /\ page.fullQuestions = {}
       /\ page.questions \subseteq StudentExamQuestions(Val(page.user))
       /\ \A q \in page.questions : DOMAIN q \cap AnswerKeyColumns = {}
  /\ \A uid \in AuthUids : \A q \in StudentExamQuestions(uid) :
       DOMAIN q \cap AnswerKeyColumns = {}

C4_Witness ==
  /\ page.questions # {}
  /\ page.submitting /\ ~page.submitted
  /\ rendered.questions # {}
  /\ \E c \in Calls : page.pending[c] = "rpc" /\ call[c].pc = "updated"

\* C11: a start_exam_attempt call on an existing exam whose is_published is
\* true succeeds and creates an attempt, whoever calls and whatever solo_mode is.
StartAnswered == startCall' # startCall \/ attempts' # attempts

C11_PublishedExamStartsForAnyone ==
  [][(/\ StartAnswered
      /\ startCall'.p_exam_id \in DOMAIN exams
      /\ exams[startCall'.p_exam_id].is_published = Val(TRUE))
       => /\ startCall'.outcome = "ok"
          /\ DOMAIN attempts' # DOMAIN attempts]_vars

\* C12: on an exam that is not published a start succeeds only for solo_mode
\* and the authenticated owner, every other call fails as forbidden; an unknown
\* exam id fails as not found; a failed start inserts no row.
ForbiddenErrors ==
  {"Exam is not available", "This exam is only available in solo mode for the owner"}

C12_UnpublishedExamStartsForOwnerOnly ==
  [][StartAnswered =>
       LET r == startCall'
       IN /\ r.p_exam_id \notin DOMAIN exams => r.outcome = "Exam not found"
          /\ (r.p_exam_id \in DOMAIN exams /\ exams[r.p_exam_id].is_published # Val(TRUE))
               => IF /\ exams[r.p_exam_id].solo_mode = Val(TRUE)
                     /\ r.uid # Null
                     /\ exams[r.p_exam_id].created_by = r.uid
                  THEN r.outcome = "ok"
                  ELSE r.outcome \in ForbiddenErrors
          /\ r.outcome # "ok" => attempts' = attempts]_vars

\* C13: a successful start inserts exactly one row, for the given exam and
\* session token, with submitted_at and score unset and answers the empty map,
\* and returns that row's id and started_at.
C13_StartInsertsFreshAttempt ==
  [][(StartAnswered /\ startCall'.outcome = "ok") =>
       \E a \in DOMAIN attempts' \ DOMAIN attempts :
         /\ DOMAIN attempts' = DOMAIN attempts \cup {a}
         /\ \A b \in DOMAIN attempts : attempts'[b] = attempts[b]
         /\ attempts'[a] = [id |-> a, exam_id |-> startCall'.p_exam_id,
                            session_id |-> startCall'.p_session_id,
                            answers |-> Val(<< >>), score |-> Null,
                            started_at |-> clock', submitted_at |-> Null]
         /\ startCall'.returned = Val([attempt_id |-> a, started_at |-> clock'])]_vars

\* C14: once the time of a timed attempt is up, the ExamTimer invokes
\* onTimeUp exactly once in total, whatever ticks and effect runs follow.
C14_TimeUpFiresOnce == timer.timeUps <= 1

\* C15: whenever updateTimer has run, the remaining time it set is
\* max(0, startedAt + limit - now) in whole seconds, for the time at which it
\* ran: never negative, and the same whatever ticks ran or were missed before.
TimeLeftAtLastRun ==
  DateOf(Unwrap(rendered.startedAt)) + 60000 * Unwrap(TimeLimit(rendered)) - timer.lastRun

C15_RemainingFromEndTime ==
  timer.interval =>
    /\ timer.timeRemaining >= 0
    /\ IF TimeLeftAtLastRun <= 0
       THEN timer.timeRemaining = 0
       ELSE /\ 1000 * timer.timeRemaining <= TimeLeftAtLastRun
            /\ TimeLeftAtLastRun < 1000 * timer.timeRemaining + 1000

C15_Witness ==
  /\ timer.interval
  /\ timer.lastRun = 58500
  /\ timer.timeRemaining = 1

\* C16: once the page has left (the candidate navigated away) or shows the
\* results, the ExamTimer is unmounted: its interval is cleared, updateTimer
\* does not run and onTimeUp is not invoked any more.
C16_NoTickAfterUnmount ==
  [][ViewOf(rendered) \in {"gone", "results"} =>
       /\ ~timer.interval
       /\ timer' = timer]_vars

C16_Witness ==
  /\ rendered.gone
  /\ timer.endTime > 0 /\ nowMs > timer.endTime
  /\ timer.timeUps = 0

\* C17: the page has at most one submit_exam_attempt call in flight at any
\* time.
InFlight == {c \in Calls : page.pending[c] \in {"sent", "rpc"}}

C17_OneSubmitInFlight == Cardinality(InFlight) <= 1

\* C18: Submit Exam with unanswered questions only opens the confirmation
\* dialog; Go Back sends no call and leaves the attempt as it is; a call with
\* unanswered questions that the timer did not force is sent by Submit Anyway,
\* from the open dialog.
HandlerRan(name) ==
  /\ event'.name = name
  /\ <<page, rendered, timer, event>>' # <<page, rendered, timer, event>>
  /\ ~event'.timeUp

NewCalls == {c \in Calls : page.pending[c] = "none" /\ page'.pending[c] = "sent"}

C18_UnansweredSubmitIsConfirmed ==
  [][/\ (HandlerRan("handleFinalSubmit") /\ UnansweredCount > 0) =>
          NewCalls = {} /\ rendered'.showSubmitDialog
     /\ HandlerRan("dismissDialog") =>
          NewCalls = {} /\ attempts' = attempts /\ ~rendered'.showSubmitDialog
     /\ (NewCalls # {} /\ UnansweredCount > 0 /\ ~event'.timeUp) =>
          event'.name = "submitAnyway" /\ rendered.showSubmitDialog]_vars

C18_Witness ==
  /\ event.name = "submitAnyway"
  /\ UnansweredCount > 0
  /\ InFlight # {}

\* C19: when onTimeUp is invoked while the page shows the exam or the review
\* (the dialog open or not) and no submit is in flight, in the page state and
\* in the render the callback was made in, a call is sent in that step with
\* the page's answers, and the step opens no dialog, whatever is unanswered.
TimeUpInvoked ==
  /\ event'.timeUp
  /\ rendered' # rendered \/ timer'.lastRun # timer.lastRun

StartFailed == event'.name = "startExam" /\ event.name # "startExam" /\ attempts' = attempts

SubmitFailedFor(c) == page.pending[c] \in {"sent", "rpc"} /\ page'.pending[c] = "none"

C20_FailedCallKeepsState ==
  [][/\ StartFailed =>
          /\ page' = page /\ rendered' = rendered /\ timer' = timer
          /\ page'.attemptId = Null /\ page'.startedAt = Null /\ ~page'.started
          /\ ~timer'.interval
     /\ \A c \in Calls : SubmitFailedFor(c) =>
          /\ \A f \in DOMAIN page \ {"submitting", "pending", "args"} : page'[f] = page[f]
          /\ ~page'.submitting
          /\ rendered' = rendered]_vars

C20_Witness ==
  /\ event.name = "submitExam"
  /\ rendered.showSummary /\ ~rendered.submitted /\ rendered.submitting
  /\ ~page.submitting /\ ~page.submitted
  /\ InFlight = {}
  /\ page.answers # << >>
  /\ \E c \in Calls : call[c].pc = "raised" /\ page.args[c] # Null

\* C29: onTimeUp is never invoked before the end time: at every invocation
\* the browser's clock reads at least startedAt + timeLimitMinutes, in
\* milliseconds.
C29_TimeUpNotEarly ==
  [][TimeUpInvoked =>
       nowMs' >= DateOf(Unwrap(rendered'.startedAt))
                   + Unwrap(TimeLimit(rendered')) * 60 * 1000]_vars

\* C22: the page requests the rows of the table questions (correct_answer
\* and explanation included) only in the step that handles the successful
\* return of submit_exam_attempt for its attempt; while a request for them is
\* open, or their rows are held, that call has returned and the attempt is
\* submitted.
FullQuestionsRequested(c) == page.pending[c] # "fetch" /\ page'.pending[c] = "fetch"

C22_FullQuestionsAfterSubmit ==
  [][/\ \A c \in Calls : FullQuestionsRequested(c) =>
          /\ page.pending[c] = "rpc" /\ call[c].pc = "returned"
          /\ Unwrap(page.args[c]).p_attempt_id = Unwrap(page.attemptId)
          /\ attempts[Unwrap(page.attemptId)].submitted_at # Null
     /\ (\E c \in Calls : page'.pending[c] = "fetch") \/ page'.fullQuestions # {} =>
          /\ \E c \in Calls : call'[c].pc = "returned"
          /\ page'.started /\ page'.attemptId # Null]_vars

C22_Witness ==
  /\ \E c \in Calls : page.pending[c] = "fetch" /\ call[c].pc = "returned"
  /\ PageView = "summary" /\ ~rendered.submitted
  /\ page.fullQuestions = {}

\* C23: the page becomes started only in the step in which start_exam_attempt
\* inserted an attempt and answered ok, taking that attempt's id and the
\* started_at of its row; a running timer ends at that started_at plus the
\* time limit, whatever the browser's clock read at the start.
C23_StartedByServerAnswer ==
  [][/\ (~page.started /\ page'.started) =>
          /\ startResult' = "ok"
          /\ \E a \in DOMAIN attempts' \ DOMAIN attempts :
               /\ page'.attemptId = Val(a)
               /\ page'.startedAt = Val(attempts'[a].started_at)
     /\ timer'.interval =>
          /\ rendered'.started /\ rendered'.attemptId # Null
          /\ timer'.endTime =
               DateOf(attempts'[Unwrap(rendered'.attemptId)].started_at)
                 + Unwrap(TimeLimit(rendered')) * 60 * 1000]_vars

C23_Witness ==
  /\ page.started /\ timer.interval
  /\ page.startedAt = Val(1)
  /\ timer.endTime = 120000
  /\ nowMs = 59000

\* C24: once the page shows the results it keeps showing them: the answers
\* map does not change again, no timer interval runs, no attempt is started
\* and no submit_exam_attempt call is sent.
C24_SubmittedIsTerminal ==
  [][PageView = "results" =>
       /\ ViewOf(rendered') = "results"
       /\ page'.submitted /\ page'.started
       /\ page'.answers = page.answers
       /\ ~timer.interval /\ ~timer'.interval
       /\ DOMAIN attempts' = DOMAIN attempts
       /\ NewCalls = {}]_vars

C24_Witness ==
  /\ PageView = "results"
  /\ event.name = "submitExam"
  /\ nowMs = 60000 /\ timer.timeUps > 0
  /\ \E c \in Calls : call[c].pc = "raised" /\ page.pending[c] = "none"
                        /\ page.args[c] # Null

\* C27: the results view shows and marks the answers map that the successful
\* submit_exam_attempt call sent, the map the attempt's row stores, and marks
\* as many questions Correct as the correct count that call returned.
C27_ResultsShowScoredAnswers ==
  PageView = "results" =>
    /\ \E c \in Calls :
         /\ call[c].pc = "returned"
         /\ rendered.answers = Unwrap(page.args[c]).p_answers
    /\ Val(rendered.answers) = attempts[Unwrap(rendered.attemptId)].answers
    /\ Cardinality(MarkedCorrect(rendered)) = rendered.correctCount

\* C25: in the exam and the review view the unanswered count is the number
\* of questions without an entry, or with an entry made of white space only,
\* in the answers map, and lies between 0 and the number of questions.
Blank == {"", " ", "  "}

C25_UnansweredCount ==
  PageView \in {"exam", "summary"} =>
    /\ UnansweredCount =
         Cardinality({q \in rendered.questions :
                        \/ q.id \notin DOMAIN rendered.answers
                        \/ rendered.answers[q.id] \in Blank})
    /\ 0 <= UnansweredCount
    /\ UnansweredCount <= Cardinality(rendered.questions)

C25_Witness ==
  /\ PageView = "summary"
  /\ Cardinality(rendered.questions) = MaxQuestions
  /\ DOMAIN rendered.answers = {q.id : q \in rendered.questions}
  /\ rendered.answers[QuestionId("e1", 1)] = "  "
  /\ rendered.answers[QuestionId("e1", 2)] = " A "
  /\ UnansweredCount = 1

\* C21: once the time of a running timer is up, the page comes to show the
\* results unless the candidate leaves it; and whenever, with the time up, no
\* submit call is in flight and the results are not on their way, a call is
\* sent again (or the candidate leaves).
TimeIsUp == timer.interval /\ nowMs >= timer.endTime

Left == rendered.gone

NoCallLeft ==
  /\ TimeIsUp /\ ~page.submitted
  /\ \A c \in Calls : page.pending[c] = "none"

C28_ResultWithinBounds ==
  \A c \in Calls : call[c].pc = "returned" =>
    LET r == Unwrap(call[c].result)
    IN /\ r.correct_count <= r.total_count
       /\ 0 <= r.score /\ r.score <= 100

\* C30: a submit call begun after the author saved the exam without changing
\* a question, for an attempt that was in progress when the save began,
\* returns the correct count and the score of the answers against the
\* questions the exam had before the save.
UnchangedSaveBefore(c) ==
  /\ editor.saves > 0 /\ ~editor.changed
  /\ c \notin editor.early
  /\ call[c].p_attempt_id \in editor.during

C30_SaveKeepsGrading ==
  \A c \in Calls : (call[c].pc = "returned" /\ UnchangedSaveBefore(c)) =>
    LET r == Unwrap(call[c].result)
        correct == ScoreLoop(QuestionBank("e1", MaxQuestions), call[c].p_answers, 0)
    IN /\ r.correct_count = correct
       /\ r.score = PercentScore(correct, MaxQuestions)

\* C26: ai_questions_generated never exceeds ai_questions_limit, and the
\* update of a request that returns questions raises ai_questions_generated
\* of its account by the number of questions returned.
C26_UsageWithinLimit ==
  [][/\ \A u \in UserIds :
          profiles'[u].ai_questions_generated <= profiles'[u].ai_questions_limit
     /\ \A r \in GenRequests : (gen[r].pc = "generated" /\ gen'[r].pc = "done") =>
          profiles'[gen[r].user].ai_questions_generated =
            profiles[gen[r].user].ai_questions_generated + gen[r].returned]_vars

====
